---- MODULE Spec2Model ----
(***************************************************************************)
(* The Express gateway of web-service/src/server.ts: each inbound request  *)
(* is dispatched to one route handler; a forwarding handler validates the  *)
(* body, issues one axios call and, when the call settles, maps the result *)
(* or the failure to the client response.                                  *)
(***************************************************************************)
EXTENDS Integers, Sequences, FiniteSets, TLC

(* ------------------------------ bounds -------------------------------- *)
\* request slots that can be in flight at the same time
NumReq == 2
\* slots whose requests are drawn from the full input sets; the other slots
\* carry concurrent traffic drawn from the core input sets
FullReq == 1

(* ------------------------- program constants -------------------------- *)
MaxTextLen == 5000
MaxBatch == 100
HealthTimeout == 5000
MetricsTimeout == 5000
ChatTimeout == 30000
AnalyzeTimeout == 30000
BatchTimeout == 60000

VARIABLES pc, req, calls, outcome, caught, resps, late

vars == <<pc, req, calls, outcome, caught, resps, late>>

Req == 1..NumReq

(* ----------------------------- JS values ------------------------------ *)
\* A string is kept run-length encoded: a sequence of runs [c, n] (n >= 1
\* copies of the character c), adjacent runs holding different characters.
Run(c, n) == [c |-> c, n |-> n]

Whitespace == {" ", "\t"}

RECURSIVE StrLen(_)
StrLen(rs) == IF rs = <<>> THEN 0 ELSE Head(rs).n + StrLen(Tail(rs))

RECURSIVE TrimStart(_)
TrimStart(rs) ==
    IF rs # <<>> /\ Head(rs).c \in Whitespace THEN TrimStart(Tail(rs)) ELSE rs

RECURSIVE TrimEnd(_)
TrimEnd(rs) ==
    IF rs # <<>> /\ rs[Len(rs)].c \in Whitespace
    THEN TrimEnd(SubSeq(rs, 1, Len(rs) - 1))
    ELSE rs

\* String.prototype.trim
Trim(rs) == TrimEnd(TrimStart(rs))

\* A value parsed from a JSON request body (or undefined when the key is
\* missing): its type tag, the runs of a string, the value of a number, the
\* elements of an array. An array is kept run-length encoded too: a sequence
\* of runs [v, n], n >= 1 consecutive elements equal to v.
Undef == [t |-> "undefined", runs |-> <<>>, num |-> 0, elems |-> <<>>]
Null == [t |-> "null", runs |-> <<>>, num |-> 0, elems |-> <<>>]
Num(n) == [t |-> "number", runs |-> <<>>, num |-> n, elems |-> <<>>]
Str(rs) == [t |-> "string", runs |-> rs, num |-> 0, elems |-> <<>>]
Arr(es) == [t |-> "array", runs |-> <<>>, num |-> 0, elems |-> es]
Obj == [t |-> "object", runs |-> <<>>, num |-> 0, elems |-> <<>>]

\* JS truthiness, as `!text` reads it
Truthy(v) ==
    CASE v.t \in {"undefined", "null"} -> FALSE
      [] v.t = "number" -> v.num # 0
      [] v.t = "string" -> StrLen(v.runs) > 0
      [] OTHER -> TRUE

\* typeof v === 'string'
IsString(v) == v.t = "string"

\* Array.isArray(v)
IsArray(v) == v.t = "array"

Elems(v, n) == [v |-> v, n |-> n]

\* texts.length
RECURSIVE ArrLen(_)
ArrLen(es) == IF es = <<>> THEN 0 ELSE Head(es).n + ArrLen(Tail(es))

\* texts[i], i counted from 0 and below texts.length
RECURSIVE ElemAt(_, _)
ElemAt(es, i) == IF i < Head(es).n THEN Head(es).v ELSE ElemAt(Tail(es), i - Head(es).n)

(* ------------------------- upstream JSON bodies ----------------------- *)
\* A JSON body relayed by the gateway: its JSON type, its content and what
\* its confidence member is (the one member the gateway reads).
Body(t, lit, conf) == [t |-> t, lit |-> lit, conf |-> conf]
NoBody == Body("absent", "", "absent")
Lit(s) == Body("string", s, "absent")

\* upstream bodies: a full analysis result, a result without a confidence
\* member, a batch result, a FastAPI error object, a plain-text error body
AnalysisBody == Body("object", "{text,sentiment:POSITIVE,confidence:0.9998}", "number")
NoConfidenceBody == Body("object", "{text,sentiment:POSITIVE}", "absent")
BatchBody == Body("object", "{results:[...],processed_count:1}", "absent")
DetailBody == Body("object", "{detail:'Analysis failed'}", "absent")
TextBody == Body("string", "Internal Server Error", "absent")

(* ---------------------- the documented upstream ----------------------- *)
\* the endpoint table of the sentiment analysis microservice
SentimentEndpoints ==
    {<<"GET", "/">>, <<"GET", "/health">>, <<"GET", "/metrics">>,
     <<"POST", "/analyze">>, <<"POST", "/batch">>, <<"GET", "/docs">>}

(* --------------------- errors thrown into a catch --------------------- *)
\* The error object a catch block inspects: .code, .message, .response
\* (hasResp: whether .response is set; status and data: its members).
Err(code, message, hasResp, status, data) ==
    [code |-> code, message |-> message, hasResp |-> hasResp,
     status |-> status, data |-> data]
NoErr == Err("", "", FALSE, 0, NoBody)
\* a TypeError raised by the handler's own code: no code, no response
TypeError == Err("", "TypeError", FALSE, 0, NoBody)
\* what express.json hands to next() for a body that is no JSON
ParseError == Err("", "SyntaxError: Unexpected token", FALSE, 0, NoBody)
\* what res.sendFile hands to next() when the file cannot be read
FileError == Err("ENOENT", "ENOENT: no such file or directory", FALSE, 0, NoBody)
\* the rejections of an axios call
Refused == Err("ECONNREFUSED", "connect ECONNREFUSED", FALSE, 0, NoBody)
Unresolved == Err("ENOTFOUND", "getaddrinfo ENOTFOUND", FALSE, 0, NoBody)
TimedOut == Err("ECONNABORTED", "timeout exceeded", FALSE, 0, NoBody)
ConnReset == Err("ECONNRESET", "socket hang up", FALSE, 0, NoBody)
HttpError(status, data) ==
    Err(IF status \in 400..499 THEN "ERR_BAD_REQUEST" ELSE "ERR_BAD_RESPONSE",
        "Request failed with status code", TRUE, status, data)

\* How an outbound call settles: fulfilled with a 2xx status and a body, or
\* rejected with an error object.
Ok(status, data) == [kind |-> "ok", status |-> status, data |-> data, err |-> NoErr]
Fail(err) == [kind |-> "error", status |-> 0, data |-> NoBody, err |-> err]
NoOutcome == [kind |-> "none", status |-> 0, data |-> NoBody, err |-> NoErr]

(* ------------------------- requests and calls ------------------------- *)
\* req.body after express.json: the members the handlers read
ReqBody(text, texts) == [text |-> text, texts |-> texts]
EmptyBody == ReqBody(Undef, Undef)
\* a request whose body express.json parsed (or that has no body)
Request(method, path, body) ==
    [method |-> method, path |-> path, body |-> body, parsed |-> TRUE]
\* a request whose JSON body express.json cannot parse
Unparsed(method, path) ==
    [method |-> method, path |-> path, body |-> EmptyBody, parsed |-> FALSE]
NoRequest == Request("", "", EmptyBody)

\* an outbound axios call
Call(base, method, path, payload, timeout) ==
    [base |-> base, method |-> method, path |-> path, payload |-> payload,
     timeout |-> timeout]

(* ----------------------------- responses ------------------------------ *)
\* What res.status(..).json(..) sends: the status and the members of the
\* JSON body (details and data are NoBody when the member is absent).
Response(status, shape, web, error, details, data) ==
    [status |-> status, shape |-> shape, web |-> web, error |-> error,
     details |-> details, data |-> data, message |-> "", endpoints |-> <<>>]
\* a body with a message member
WithMessage(resp, message) == [resp EXCEPT !.message = message]
\* res.status(status).json({error, details})
ErrorResponse(status, error, details) ==
    Response(status, "error", "", error, details, NoBody)
\* res.json(response.data)
Passthrough(data) == Response(200, "passthrough", "", "", NoBody, data)

(* --------------------------- configuration ---------------------------- *)
\* the two upstream base URLs, read once from the environment
SENTIMENT_ANALYSIS_URL == "AI_SERVICE_URL"
CONVERSATIONAL_AI_URL == "CONVERSATIONAL_AI_URL"

(* ------------------------------ routing ------------------------------- *)
\* The handler Express dispatches a request to: the first registered route
\* whose method and path match, else the app.use('*') handler.
Route(method, path) ==
    CASE method = "GET" /\ path = "/health" -> "health"
      [] method = "GET" /\ path = "/api/health" -> "apiHealth"
      [] method = "GET" /\ path = "/api/metrics" -> "apiMetrics"
      [] method = "POST" /\ path = "/api/chat" -> "apiChat"
      [] method = "POST" /\ path = "/api/analyze" -> "apiAnalyze"
      [] method = "POST" /\ path = "/api/batch-analyze" -> "apiBatchAnalyze"
      [] method = "GET" /\ path = "/" -> "page"
      [] method = "GET" /\ path = "/sentiment" -> "page"
      [] method = "GET" /\ path = "/api" -> "apiInfo"
      [] OTHER -> "notFound"

\* What answers a request: express.json runs ahead of every route and hands
\* a body it cannot parse to the error-handling middleware.
Handler(rq) == IF rq.parsed THEN Route(rq.method, rq.path) ELSE "errorHandler"

(* ------------------- what one run of handler code does ----------------- *)
NoCall == Call("", "", "", EmptyBody, 0)
NoResponse == Response(0, "", "", "", NoBody, NoBody)
\* the code sends a response and returns
Respond(resp) == [tag |-> "respond", resp |-> resp, call |-> NoCall, err |-> NoErr]
\* the code issues an axios call and suspends at the await
Await(call) == [tag |-> "await", resp |-> NoResponse, call |-> call, err |-> NoErr]
\* the code throws inside the try block
Throw(err) == [tag |-> "throw", resp |-> NoResponse, call |-> NoCall, err |-> err]

(* --------------------------- POST /api/analyze ------------------------ *)
\* AnalyzeTry without the length check
AnalyzeTryNoLengthCheck(body) ==
    LET text == body.text IN
    IF ~Truthy(text)
    THEN Respond(ErrorResponse(400, "Text is required and cannot be empty", NoBody))
    ELSE IF ~IsString(text)
    THEN Throw(TypeError)
    ELSE IF StrLen(Trim(text.runs)) = 0
    THEN Respond(ErrorResponse(400, "Text is required and cannot be empty", NoBody))
    ELSE Await(Call(SENTIMENT_ANALYSIS_URL, "POST", "/analyze",
                    ReqBody(Str(Trim(text.runs)), Undef), AnalyzeTimeout))

\* AnalyzeTry with the length check applied to the trimmed text
AnalyzeTryTrimmedLength(body) ==
    LET text == body.text IN
    IF ~Truthy(text)
    THEN Respond(ErrorResponse(400, "Text is required and cannot be empty", NoBody))
    ELSE IF ~IsString(text)
    THEN Throw(TypeError)
    ELSE IF StrLen(Trim(text.runs)) = 0
    THEN Respond(ErrorResponse(400, "Text is required and cannot be empty", NoBody))
    ELSE IF StrLen(Trim(text.runs)) > MaxTextLen
    THEN Respond(ErrorResponse(400, "Text too long. Maximum 5000 characters allowed.",
                               NoBody))
    ELSE Await(Call(SENTIMENT_ANALYSIS_URL, "POST", "/analyze",
                    ReqBody(Str(Trim(text.runs)), Undef), AnalyzeTimeout))

\* AnalyzeTry with the length check ahead of the blank check
AnalyzeTryLengthFirst(body) ==
    LET text == body.text IN
    IF ~Truthy(text)
    THEN Respond(ErrorResponse(400, "Text is required and cannot be empty", NoBody))
    ELSE IF ~IsString(text)
    THEN Throw(TypeError)
    ELSE IF StrLen(text.runs) > MaxTextLen
    THEN Respond(ErrorResponse(400, "Text too long. Maximum 5000 characters allowed.",
                               NoBody))
    ELSE IF StrLen(Trim(text.runs)) = 0
    THEN Respond(ErrorResponse(400, "Text is required and cannot be empty", NoBody))
    ELSE Await(Call(SENTIMENT_ANALYSIS_URL, "POST", "/analyze",
                    ReqBody(Str(Trim(text.runs)), Undef), AnalyzeTimeout))

\* AnalyzeTry forwarding the text as it came
AnalyzeTryForwardsRaw(body) ==
    LET text == body.text IN
    IF ~Truthy(text)
    THEN Respond(ErrorResponse(400, "Text is required and cannot be empty", NoBody))
    ELSE IF ~IsString(text)
    THEN Throw(TypeError)
    ELSE IF StrLen(Trim(text.runs)) = 0
    THEN Respond(ErrorResponse(400, "Text is required and cannot be empty", NoBody))
    ELSE IF StrLen(text.runs) > MaxTextLen
    THEN Respond(ErrorResponse(400, "Text too long. Maximum 5000 characters allowed.",
                               NoBody))
    ELSE Await(Call(SENTIMENT_ANALYSIS_URL, "POST", "/analyze",
                    ReqBody(text, Undef), AnalyzeTimeout))

\* the try block down to the await
AnalyzeTry(body) ==
    LET text == body.text IN
    IF ~Truthy(text)
    THEN Respond(ErrorResponse(400, "Text is required and cannot be empty", NoBody))
    ELSE IF ~IsString(text)
    THEN Throw(TypeError)        \* text.trim is not a function
    ELSE IF StrLen(Trim(text.runs)) = 0
    THEN Respond(ErrorResponse(400, "Text is required and cannot be empty", NoBody))
    ELSE IF StrLen(text.runs) > MaxTextLen
    THEN Respond(ErrorResponse(400, "Text too long. Maximum 5000 characters allowed.",
                               NoBody))
    ELSE Await(Call(SENTIMENT_ANALYSIS_URL, "POST", "/analyze",
                    ReqBody(Str(Trim(text.runs)), Undef), AnalyzeTimeout))

\* response.data.sentiment and response.data.confidence.toFixed(4) in the
\* log line: a TypeError unless data is an object whose confidence is a number
LogThrows(data) == data.t # "object" \/ data.conf # "number"

\* the try block after the await
AnalyzeThen(o) ==
    IF o.kind = "ok"
    THEN IF LogThrows(o.data) THEN Throw(TypeError) ELSE Respond(Passthrough(o.data))
    ELSE Throw(o.err)

\* AnalyzeCatch answering 502 for every upstream error response
AnalyzeCatchFixedStatus(err) ==
    IF err.code = "ECONNREFUSED"
    THEN ErrorResponse(503, "AI service is currently unavailable. Please try again later.",
                       Lit("Unable to connect to sentiment analysis service"))
    ELSE IF err.hasResp
    THEN ErrorResponse(502, "AI service error", err.data)
    ELSE IF err.code = "ENOTFOUND"
    THEN ErrorResponse(503, "AI service configuration error",
                       Lit("Cannot resolve AI service hostname"))
    ELSE ErrorResponse(500, "Internal server error",
                       Lit("An unexpected error occurred while processing your request"))

\* AnalyzeCatch putting the error's message in the details of the last branch
AnalyzeCatchLeaksMessage(err) ==
    IF err.code = "ECONNREFUSED"
    THEN ErrorResponse(503, "AI service is currently unavailable. Please try again later.",
                       Lit("Unable to connect to sentiment analysis service"))
    ELSE IF err.hasResp
    THEN ErrorResponse(err.status, "AI service error", err.data)
    ELSE IF err.code = "ENOTFOUND"
    THEN ErrorResponse(503, "AI service configuration error",
                       Lit("Cannot resolve AI service hostname"))
    ELSE ErrorResponse(500, "Internal server error", Lit(err.message))

\* AnalyzeCatch with timeouts answered as an unavailable service
AnalyzeCatchTimeoutUnavailable(err) ==
    IF err.code \in {"ECONNREFUSED", "ECONNABORTED"}
    THEN ErrorResponse(503, "AI service is currently unavailable. Please try again later.",
                       Lit("Unable to connect to sentiment analysis service"))
    ELSE IF err.hasResp
    THEN ErrorResponse(err.status, "AI service error", err.data)
    ELSE IF err.code = "ENOTFOUND"
    THEN ErrorResponse(503, "AI service configuration error",
                       Lit("Cannot resolve AI service hostname"))
    ELSE ErrorResponse(500, "Internal server error",
                       Lit("An unexpected error occurred while processing your request"))

\* AnalyzeCatch testing for an upstream response first
AnalyzeCatchResponseFirst(err) ==
    IF err.hasResp
    THEN ErrorResponse(err.status, "AI service error", err.data)
    ELSE IF err.code = "ECONNREFUSED"
    THEN ErrorResponse(503, "AI service is currently unavailable. Please try again later.",
                       Lit("Unable to connect to sentiment analysis service"))
    ELSE IF err.code = "ENOTFOUND"
    THEN ErrorResponse(503, "AI service configuration error",
                       Lit("Cannot resolve AI service hostname"))
    ELSE ErrorResponse(500, "Internal server error",
                       Lit("An unexpected error occurred while processing your request"))

\* the catch block
AnalyzeCatch(err) ==
    IF err.code = "ECONNREFUSED"
    THEN ErrorResponse(503, "AI service is currently unavailable. Please try again later.",
                       Lit("Unable to connect to sentiment analysis service"))
    ELSE IF err.hasResp
    THEN ErrorResponse(err.status, "AI service error", err.data)
    ELSE IF err.code = "ENOTFOUND"
    THEN ErrorResponse(503, "AI service configuration error",
                       Lit("Cannot resolve AI service hostname"))
    ELSE ErrorResponse(500, "Internal server error",
                       Lit("An unexpected error occurred while processing your request"))

(* ------------------------ POST /api/batch-analyze --------------------- *)
\* the element test of the validation loop
InvalidText(v) == ~IsString(v) \/ StrLen(Trim(v.runs)) = 0

\* ScanTexts reporting the last invalid index instead of the first
RECURSIVE ScanTextsLast(_, _)
ScanTextsLast(es, i) ==
    IF es = <<>> THEN -1
    ELSE LET rest == ScanTextsLast(Tail(es), i + Head(es).n) IN
         IF rest >= 0 THEN rest
         ELSE IF InvalidText(Head(es).v) THEN i + Head(es).n - 1
         ELSE -1

\* the validation loop over the elements es that start at index i: the
\* first invalid index, or -1 (the elements of a run pass or fail together)
RECURSIVE ScanTexts(_, _)
ScanTexts(es, i) ==
    IF es = <<>> THEN -1
    ELSE IF InvalidText(Head(es).v) THEN i
    ELSE ScanTexts(Tail(es), i + Head(es).n)

\* TrimAll forwarding the texts as received
TrimAllUntrimmed(es) == es

\* texts.map(text => text.trim())
TrimAll(es) == [k \in 1..Len(es) |-> Elems(Str(Trim(es[k].v.runs)), es[k].n)]

\* BatchTry with the element loop ahead of the size check
BatchTryScanFirst(body) ==
    LET texts == body.texts IN
    IF ~IsArray(texts) \/ ArrLen(texts.elems) = 0
    THEN Respond(ErrorResponse(400, "Texts array is required and cannot be empty", NoBody))
    ELSE LET i == ScanTexts(texts.elems, 0) IN
         IF i >= 0
         THEN Respond(ErrorResponse(400, "Text at index " \o ToString(i)
                                         \o " is invalid or empty", NoBody))
         ELSE IF ArrLen(texts.elems) > MaxBatch
         THEN Respond(ErrorResponse(400,
                        "Too many texts. Maximum 100 texts allowed per batch.", NoBody))
         ELSE Await(Call(SENTIMENT_ANALYSIS_URL, "POST", "/batch-analyze",
                         ReqBody(Undef, Arr(TrimAll(texts.elems))), BatchTimeout))

BatchTry(body) ==
    LET texts == body.texts IN
    IF ~IsArray(texts) \/ ArrLen(texts.elems) = 0
    THEN Respond(ErrorResponse(400, "Texts array is required and cannot be empty", NoBody))
    ELSE IF ArrLen(texts.elems) > MaxBatch
    THEN Respond(ErrorResponse(400, "Too many texts. Maximum 100 texts allowed per batch.",
                               NoBody))
    ELSE LET i == ScanTexts(texts.elems, 0) IN
         IF i >= 0
         THEN Respond(ErrorResponse(400, "Text at index " \o ToString(i)
                                         \o " is invalid or empty", NoBody))
         ELSE Await(Call(SENTIMENT_ANALYSIS_URL, "POST", "/batch-analyze",
                         ReqBody(Undef, Arr(TrimAll(texts.elems))), BatchTimeout))

BatchThen(o) ==
    IF o.kind = "ok" THEN Respond(Passthrough(o.data)) ELSE Throw(o.err)

\* BatchCatch without the ECONNREFUSED branch
BatchCatchNoRefused(err) ==
    IF err.hasResp
    THEN ErrorResponse(err.status, "AI service error", err.data)
    ELSE ErrorResponse(500, "Internal server error",
                       Lit("An unexpected error occurred while processing batch request"))

BatchCatch(err) ==
    IF err.code = "ECONNREFUSED"
    THEN ErrorResponse(503, "AI service is currently unavailable. Please try again later.",
                       Lit("Unable to connect to sentiment analysis service"))
    ELSE IF err.hasResp
    THEN ErrorResponse(err.status, "AI service error", err.data)
    ELSE ErrorResponse(500, "Internal server error",
                       Lit("An unexpected error occurred while processing batch request"))

\* a health catch block that fails the whole response, as the metrics one does
HealthCatchFailsWhole(err) ==
    Response(503, "error", "", "Failed to fetch health from AI service",
             Lit(err.message), NoBody)

(* ------------------ GET /api/health, /api/metrics, POST /api/chat ------ *)
HealthTry(body) ==
    Await(Call(SENTIMENT_ANALYSIS_URL, "GET", "/health", EmptyBody, HealthTimeout))
HealthThen(o) ==
    IF o.kind = "ok"
    THEN Respond(Response(200, "health", "healthy", "", NoBody, o.data))
    ELSE Throw(o.err)
HealthCatch(err) ==
    Response(503, "health", "healthy", err.message, NoBody, Lit("unavailable"))

MetricsTry(body) ==
    Await(Call(SENTIMENT_ANALYSIS_URL, "GET", "/metrics", EmptyBody, MetricsTimeout))
MetricsThen(o) ==
    IF o.kind = "ok" THEN Respond(Passthrough(o.data)) ELSE Throw(o.err)
MetricsCatch(err) ==
    ErrorResponse(503, "Failed to fetch metrics from AI service", Lit(err.message))

\* a chat catch block that relays the status of an upstream answer, as the
\* analyze one does
ChatCatchRelaysStatus(err) ==
    IF err.hasResp
    THEN ErrorResponse(err.status, "Failed to communicate with conversational AI service",
                       Lit(err.message))
    ELSE ErrorResponse(503, "Failed to communicate with conversational AI service",
                       Lit(err.message))

ChatTry(body) ==
    Await(Call(CONVERSATIONAL_AI_URL, "POST", "/chat", body, ChatTimeout))
ChatThen(o) ==
    IF o.kind = "ok" THEN Respond(Passthrough(o.data)) ELSE Throw(o.err)
ChatCatch(err) ==
    ErrorResponse(503, "Failed to communicate with conversational AI service",
                  Lit(err.message))

(* ------------------- the legacy server (server.js) -------------------- *)
\* the upstream base URL of the legacy server, configured as the sentiment
\* service URL of the gateway is
FASTAPI_URL == SENTIMENT_ANALYSIS_URL

\* GET /api/health
LegacyHealthTry(body) == Await(Call(FASTAPI_URL, "GET", "/health", EmptyBody, 5000))
LegacyHealthThen(o) ==
    IF o.kind = "ok"
    THEN Respond(Response(200, "health", "healthy", "", NoBody, o.data))
    ELSE Throw(o.err)
LegacyHealthCatch(err) ==
    Response(503, "health", "healthy", err.message, NoBody, Lit("unavailable"))

\* POST /api/analyze
LegacyAnalyzeTry(body) ==
    LET text == body.text IN
    IF ~Truthy(text)
    THEN Respond(ErrorResponse(400, "Text is required and cannot be empty", NoBody))
    ELSE IF ~IsString(text)
    THEN Throw(TypeError)        \* text.trim is not a function
    ELSE IF StrLen(Trim(text.runs)) = 0
    THEN Respond(ErrorResponse(400, "Text is required and cannot be empty", NoBody))
    ELSE IF StrLen(text.runs) > 5000
    THEN Respond(ErrorResponse(400, "Text too long. Maximum 5000 characters allowed.",
                               NoBody))
    ELSE Await(Call(FASTAPI_URL, "POST", "/analyze",
                    ReqBody(Str(Trim(text.runs)), Undef), 30000))
LegacyAnalyzeThen(o) ==
    IF o.kind = "ok"
    THEN IF LogThrows(o.data) THEN Throw(TypeError) ELSE Respond(Passthrough(o.data))
    ELSE Throw(o.err)
LegacyAnalyzeCatch(err) ==
    IF err.code = "ECONNREFUSED"
    THEN ErrorResponse(503, "AI service is currently unavailable. Please try again later.",
                       Lit("Unable to connect to sentiment analysis service"))
    ELSE IF err.hasResp
    THEN ErrorResponse(err.status, "AI service error", err.data)
    ELSE IF err.code = "ENOTFOUND"
    THEN ErrorResponse(503, "AI service configuration error",
                       Lit("Cannot resolve AI service hostname"))
    ELSE ErrorResponse(500, "Internal server error",
                       Lit("An unexpected error occurred while processing your request"))

\* POST /api/batch-analyze: the validation loop (first invalid index or -1)
RECURSIVE LegacyScanTexts(_, _)
LegacyScanTexts(es, i) ==
    IF es = <<>> THEN -1
    ELSE IF Head(es).v.t # "string" \/ StrLen(Trim(Head(es).v.runs)) = 0 THEN i
    ELSE LegacyScanTexts(Tail(es), i + Head(es).n)
LegacyBatchTry(body) ==
    LET texts == body.texts IN
    IF ~IsArray(texts) \/ ArrLen(texts.elems) = 0
    THEN Respond(ErrorResponse(400, "Texts array is required and cannot be empty", NoBody))
    ELSE IF ArrLen(texts.elems) > 100
    THEN Respond(ErrorResponse(400, "Too many texts. Maximum 100 texts allowed per batch.",
                               NoBody))
    ELSE LET i == LegacyScanTexts(texts.elems, 0) IN
         IF i >= 0
         THEN Respond(ErrorResponse(400, "Text at index " \o ToString(i)
                                         \o " is invalid or empty", NoBody))
         ELSE Await(Call(FASTAPI_URL, "POST", "/batch-analyze",
                         ReqBody(Undef, Arr(TrimAll(texts.elems))), 60000))
LegacyBatchThen(o) ==
    IF o.kind = "ok" THEN Respond(Passthrough(o.data)) ELSE Throw(o.err)

\* the legacy batch catch given the ENOTFOUND branch of the analyze catch
LegacyBatchCatchResolves(err) ==
    IF err.code = "ECONNREFUSED"
    THEN ErrorResponse(503, "AI service is currently unavailable. Please try again later.",
                       Lit("Unable to connect to sentiment analysis service"))
    ELSE IF err.hasResp
    THEN ErrorResponse(err.status, "AI service error", err.data)
    ELSE IF err.code = "ENOTFOUND"
    THEN ErrorResponse(503, "AI service configuration error",
                       Lit("Cannot resolve AI service hostname"))
    ELSE ErrorResponse(500, "Internal server error",
                       Lit("An unexpected error occurred while processing batch request"))

LegacyBatchCatch(err) ==
    IF err.code = "ECONNREFUSED"
    THEN ErrorResponse(503, "AI service is currently unavailable. Please try again later.",
                       Lit("Unable to connect to sentiment analysis service"))
    ELSE IF err.hasResp
    THEN ErrorResponse(err.status, "AI service error", err.data)
    ELSE ErrorResponse(500, "Internal server error",
                       Lit("An unexpected error occurred while processing batch request"))

(* --------------------------- local handlers --------------------------- *)
\* GET /health
NodeHealth == Response(200, "nodeHealth", "", "", NoBody, Lit("healthy"))
\* GET /api
ApiInfo == Response(200, "apiInfo", "", "", NoBody, Lit("AI Microservices Web Gateway"))
\* GET / and GET /sentiment
PageFile == Response(200, "file", "", "", NoBody, NoBody)
\* app.use('*')
AvailableEndpoints ==
    <<"GET /", "GET /health", "GET /api", "GET /api/health", "POST /api/analyze",
      "POST /api/batch-analyze">>

\* a 404 body that lists the requested endpoint among the available ones
NotFoundResponseEchoes(originalUrl) ==
    [WithMessage(Response(404, "notFound", "", "Not Found", NoBody, NoBody),
                 "The requested endpoint " \o originalUrl \o " was not found")
        EXCEPT !.endpoints = Append(AvailableEndpoints, "GET " \o originalUrl)]

NotFoundResponse(originalUrl) ==
    [WithMessage(Response(404, "notFound", "", "Not Found", NoBody, NoBody),
                 "The requested endpoint " \o originalUrl \o " was not found")
        EXCEPT !.endpoints = AvailableEndpoints]

\* the error-handling middleware left without a JSON answer: Express's own
\* final handler answers with an HTML page
ErrorHandlerHtml(err) == Response(500, "html", "", "", NoBody, NoBody)

\* app.use((err, req, res, next) => ...)
ErrorHandler(err) ==
    WithMessage(Response(500, "error", "", "Internal Server Error", NoBody, NoBody),
                "An unexpected error occurred")

(* ------------------------------- inputs ------------------------------- *)
TextA == <<Run("a", 1)>>
TextB == <<Run("b", 1)>>
Padded == <<Run(" ", 1), Run("a", 1), Run("\t", 1)>>
Blank == <<Run(" ", 2)>>
BlankOverLimit == <<Run(" ", MaxTextLen + 1)>>
AtLimit == <<Run("a", MaxTextLen)>>
OverLimit == <<Run("a", MaxTextLen + 1)>>
PaddedOverLimit == <<Run(" ", 1), Run("a", MaxTextLen - 1), Run(" ", 1)>>

\* values of the text member of a POST /api/analyze body
FullTexts ==
    {Undef, Null, Num(0), Num(7), Obj, Str(<<>>), Str(Blank), Str(BlankOverLimit),
     Str(TextA), Str(Padded), Str(AtLimit), Str(OverLimit), Str(PaddedOverLimit)}

\* values of the texts member of a POST /api/batch-analyze body
FullBatches ==
    {Undef, Str(TextA), Arr(<<>>), Arr(<<Elems(Str(TextA), 1)>>),
     Arr(<<Elems(Str(Padded), 1), Elems(Str(TextB), 1)>>),
     Arr(<<Elems(Str(TextA), 1), Elems(Str(<<>>), 1), Elems(Str(Blank), 1)>>),
     Arr(<<Elems(Num(7), 1)>>),
     Arr(<<Elems(Str(TextA), MaxBatch)>>), Arr(<<Elems(Str(TextA), MaxBatch + 1)>>),
     Arr(<<Elems(Str(<<>>), MaxBatch + 1)>>),
     Arr(<<Elems(Str(TextA), MaxBatch - 1), Elems(Str(Blank), 1)>>)}

FullRequests ==
    {Request("POST", "/api/analyze", ReqBody(t, Undef)) : t \in FullTexts}
    \cup {Request("POST", "/api/batch-analyze", ReqBody(Undef, ts)) : ts \in FullBatches}
    \cup {Request("POST", "/api/chat", ReqBody(t, Undef)) : t \in {Undef, Str(TextA)}}
    \cup {Request("GET", p, EmptyBody) :
            p \in {"/health", "/api/health", "/api/metrics", "/", "/api",
                   "/api/analyze", "/nope"}}
    \cup {Request("POST", "/api/batch", ReqBody(Undef, Arr(<<Elems(Str(TextA), 1)>>)))}
    \cup {Unparsed("POST", p) : p \in {"/api/analyze", "/api/chat", "/nope"}}

CoreRequests ==
    {Request("POST", "/api/analyze", ReqBody(Str(TextA), Undef)),
     Request("POST", "/api/analyze", ReqBody(Str(<<>>), Undef)),
     Request("POST", "/api/analyze", ReqBody(Num(7), Undef)),
     Request("POST", "/api/batch-analyze", ReqBody(Undef, Arr(<<Elems(Str(TextA), 1)>>))),
     Request("GET", "/api/health", EmptyBody),
     Unparsed("POST", "/api/analyze")}

Requests(r) == IF r <= FullReq THEN FullRequests ELSE CoreRequests

\* the ways an axios call settles
FullOutcomes ==
    {Ok(200, AnalysisBody), Ok(200, NoConfidenceBody), Ok(200, BatchBody),
     Ok(201, AnalysisBody),
     Fail(HttpError(422, DetailBody)), Fail(HttpError(500, TextBody)),
     Fail(Refused), Fail(Unresolved), Fail(TimedOut), Fail(ConnReset)}

CoreOutcomes == {Ok(200, AnalysisBody), Fail(HttpError(422, DetailBody)), Fail(Refused)}

Outcomes(r) == IF r <= FullReq THEN FullOutcomes ELSE CoreOutcomes

(* ------------------------------- state -------------------------------- *)
\* pc[r]: where request r is: not arrived, suspended at its await, answered
\* req[r]: the request; calls[r]: the axios calls issued for it;
\* outcome[r]: how its call settled; caught[r]: the error caught for it, by
\* its handler's catch block or by the error-handling middleware;
\* resps[r]: the responses sent for it; late[r]: whether the upstream's
\* answer to its call came in after the call had timed out
Init ==
    /\ late = [r \in Req |-> FALSE]
    /\ pc = [r \in Req |-> "idle"]
    /\ req = [r \in Req |-> NoRequest]
    /\ calls = [r \in Req |-> <<>>]
    /\ outcome = [r \in Req |-> NoOutcome]
    /\ caught = [r \in Req |-> NoErr]
    /\ resps = [r \in Req |-> <<>>]

\* Apply with one more attempt after a refused connection
ApplyWithRetry(r, step, caughtResp) ==
    CASE step.tag = "respond" ->
            /\ pc' = [pc EXCEPT ![r] = "done"]
            /\ resps' = [resps EXCEPT ![r] = Append(@, step.resp)]
            /\ UNCHANGED <<calls, caught>>
      [] step.tag = "await" ->
            /\ pc' = [pc EXCEPT ![r] = "awaiting"]
            /\ calls' = [calls EXCEPT ![r] = Append(@, step.call)]
            /\ UNCHANGED <<resps, caught>>
      [] step.tag = "throw" /\ step.err.code = "ECONNREFUSED" /\ Len(calls[r]) = 1 ->
            /\ calls' = [calls EXCEPT ![r] = Append(@, calls[r][1])]
            /\ UNCHANGED <<pc, resps, caught>>
      [] OTHER ->
            /\ pc' = [pc EXCEPT ![r] = "done"]
            /\ caught' = [caught EXCEPT ![r] = step.err]
            /\ resps' = [resps EXCEPT ![r] = Append(@, caughtResp)]
            /\ UNCHANGED calls

\* Apply with a catch block that rethrows a timeout: the promise of the async
\* handler rejects and nothing is ever sent
ApplyRethrowsTimeout(r, step, caughtResp) ==
    CASE step.tag = "respond" ->
            /\ pc' = [pc EXCEPT ![r] = "done"]
            /\ resps' = [resps EXCEPT ![r] = Append(@, step.resp)]
            /\ UNCHANGED <<calls, caught>>
      [] step.tag = "await" ->
            /\ pc' = [pc EXCEPT ![r] = "awaiting"]
            /\ calls' = [calls EXCEPT ![r] = Append(@, step.call)]
            /\ UNCHANGED <<resps, caught>>
      [] step.tag = "throw" /\ step.err.code = "ECONNABORTED" ->
            /\ pc' = [pc EXCEPT ![r] = "rejected"]
            /\ caught' = [caught EXCEPT ![r] = step.err]
            /\ UNCHANGED <<calls, resps>>
      [] OTHER ->
            /\ pc' = [pc EXCEPT ![r] = "done"]
            /\ caught' = [caught EXCEPT ![r] = step.err]
            /\ resps' = [resps EXCEPT ![r] = Append(@, caughtResp)]
            /\ UNCHANGED calls

\* Apply with the response object of the catch block kept at module level:
\* the error answer also goes out on every request suspended at its call
ApplySharedResponse(r, step, caughtResp) ==
    CASE step.tag = "respond" ->
            /\ pc' = [pc EXCEPT ![r] = "done"]
            /\ resps' = [resps EXCEPT ![r] = Append(@, step.resp)]
            /\ UNCHANGED <<calls, caught>>
      [] step.tag = "await" ->
            /\ pc' = [pc EXCEPT ![r] = "awaiting"]
            /\ calls' = [calls EXCEPT ![r] = Append(@, step.call)]
            /\ UNCHANGED <<resps, caught>>
      [] step.tag = "throw" ->
            /\ pc' = [pc EXCEPT ![r] = "done"]
            /\ caught' = [caught EXCEPT ![r] = step.err]
            /\ resps' = [q \in Req |->
                            IF q = r \/ pc[q] = "awaiting"
                            THEN Append(resps[q], caughtResp) ELSE resps[q]]
            /\ UNCHANGED calls

\* apply what a run of handler code did to request r; caughtResp is the
\* response of the handler's catch block for step.err
Apply(r, step, caughtResp) ==
    CASE step.tag = "respond" ->
            /\ pc' = [pc EXCEPT ![r] = "done"]
            /\ resps' = [resps EXCEPT ![r] = Append(@, step.resp)]
            /\ UNCHANGED <<calls, caught>>
      [] step.tag = "await" ->
            /\ pc' = [pc EXCEPT ![r] = "awaiting"]
            /\ calls' = [calls EXCEPT ![r] = Append(@, step.call)]
            /\ UNCHANGED <<resps, caught>>
      [] step.tag = "throw" ->
            /\ pc' = [pc EXCEPT ![r] = "done"]
            /\ caught' = [caught EXCEPT ![r] = step.err]
            /\ resps' = [resps EXCEPT ![r] = Append(@, caughtResp)]
            /\ UNCHANGED calls

\* Begin in a gateway that serves one request at a time: a request waits
\* while another is suspended at its call
BeginSerial(r, rq, step, caughtResp) ==
    /\ \A q \in Req : pc[q] # "awaiting"
    /\ req' = [req EXCEPT ![r] = rq]
    /\ UNCHANGED <<outcome, late>>
    /\ Apply(r, step, caughtResp)

\* request rq arrives in slot r and Express runs its handler down to the
\* first await
Begin(r, rq, step, caughtResp) ==
    /\ req' = [req EXCEPT ![r] = rq]
    /\ UNCHANGED <<outcome, late>>
    /\ Apply(r, step, caughtResp)

\* the call of request r settles as o and its handler resumes
Settle(r, o, step, caughtResp) ==
    /\ outcome' = [outcome EXCEPT ![r] = o]
    /\ UNCHANGED <<req, late>>
    /\ Apply(r, step, caughtResp)

(* ------------------------------ actions ------------------------------- *)
Analyze(r) ==
    /\ pc[r] = "idle"
    /\ \E rq \in Requests(r) :
        /\ Handler(rq) = "apiAnalyze"
        /\ LET step == AnalyzeTry(rq.body) IN Begin(r, rq, step, AnalyzeCatch(step.err))
AnalyzeSettled(r, outs) ==
    /\ pc[r] = "awaiting"
    /\ Handler(req[r]) = "apiAnalyze"
    /\ \E o \in outs : LET step == AnalyzeThen(o) IN Settle(r, o, step, AnalyzeCatch(step.err))

BatchAnalyze(r) ==
    /\ pc[r] = "idle"
    /\ \E rq \in Requests(r) :
        /\ Handler(rq) = "apiBatchAnalyze"
        /\ LET step == BatchTry(rq.body) IN Begin(r, rq, step, BatchCatch(step.err))
BatchSettled(r, outs) ==
    /\ pc[r] = "awaiting"
    /\ Handler(req[r]) = "apiBatchAnalyze"
    /\ \E o \in outs : LET step == BatchThen(o) IN Settle(r, o, step, BatchCatch(step.err))

ApiHealth(r) ==
    /\ pc[r] = "idle"
    /\ \E rq \in Requests(r) :
        /\ Handler(rq) = "apiHealth"
        /\ LET step == HealthTry(rq.body) IN Begin(r, rq, step, HealthCatch(step.err))
ApiHealthSettled(r, outs) ==
    /\ pc[r] = "awaiting"
    /\ Handler(req[r]) = "apiHealth"
    /\ \E o \in outs : LET step == HealthThen(o) IN Settle(r, o, step, HealthCatch(step.err))

ApiMetrics(r) ==
    /\ pc[r] = "idle"
    /\ \E rq \in Requests(r) :
        /\ Handler(rq) = "apiMetrics"
        /\ LET step == MetricsTry(rq.body) IN Begin(r, rq, step, MetricsCatch(step.err))
ApiMetricsSettled(r, outs) ==
    /\ pc[r] = "awaiting"
    /\ Handler(req[r]) = "apiMetrics"
    /\ \E o \in outs : LET step == MetricsThen(o) IN Settle(r, o, step, MetricsCatch(step.err))

ApiChat(r) ==
    /\ pc[r] = "idle"
    /\ \E rq \in Requests(r) :
        /\ Handler(rq) = "apiChat"
        /\ LET step == ChatTry(rq.body) IN Begin(r, rq, step, ChatCatch(step.err))
ApiChatSettled(r, outs) ==
    /\ pc[r] = "awaiting"
    /\ Handler(req[r]) = "apiChat"
    /\ \E o \in outs : LET step == ChatThen(o) IN Settle(r, o, step, ChatCatch(step.err))

Health(r) ==
    /\ pc[r] = "idle"
    /\ \E rq \in Requests(r) :
        /\ Handler(rq) = "health"
        /\ Begin(r, rq, Respond(NodeHealth), NoResponse)
Info(r) ==
    /\ pc[r] = "idle"
    /\ \E rq \in Requests(r) :
        /\ Handler(rq) = "apiInfo"
        /\ Begin(r, rq, Respond(ApiInfo), NoResponse)
\* GET / and GET /sentiment: res.sendFile sends the file, or hands the error
\* of reading it to the error-handling middleware
Page(r) ==
    /\ pc[r] = "idle"
    /\ \E rq \in Requests(r) :
        /\ Handler(rq) = "page"
        /\ \E step \in {Respond(PageFile), Throw(FileError)} :
              Begin(r, rq, step, ErrorHandler(step.err))
NotFound(r) ==
    /\ pc[r] = "idle"
    /\ \E rq \in Requests(r) :
        /\ Handler(rq) = "notFound"
        /\ Begin(r, rq, Respond(NotFoundResponse(rq.path)), NoResponse)

\* express.json cannot parse the body of the arriving request
ParseFault(r) ==
    /\ pc[r] = "idle"
    /\ \E rq \in Requests(r) :
        /\ Handler(rq) = "errorHandler"
        /\ Begin(r, rq, Throw(ParseError), ErrorHandler(ParseError))

\* a late answer that resumes the handler a second time: the continuation
\* relays it on a request that was answered already
LateAnswerResumes(r) ==
    /\ pc[r] = "done"
    /\ outcome[r] = Fail(TimedOut)
    /\ ~late[r]
    /\ late' = [late EXCEPT ![r] = TRUE]
    /\ resps' = [resps EXCEPT ![r] = Append(@, Passthrough(AnalysisBody))]
    /\ UNCHANGED <<pc, req, calls, outcome, caught>>

\* The upstream answers a call after its timeout fired: axios has rejected
\* the awaited promise and aborted the request, a promise settles once, so
\* no handler code runs for the answer.
LateAnswer(r) ==
    /\ pc[r] = "done"
    /\ outcome[r] = Fail(TimedOut)
    /\ ~late[r]
    /\ late' = [late EXCEPT ![r] = TRUE]
    /\ UNCHANGED <<pc, req, calls, outcome, caught, resps>>

Next ==
    \E r \in Req :
        \/ LateAnswer(r)
        \/ ParseFault(r)
        \/ Analyze(r)
        \/ AnalyzeSettled(r, Outcomes(r))
        \/ BatchAnalyze(r)
        \/ BatchSettled(r, Outcomes(r))
        \/ ApiHealth(r)
        \/ ApiHealthSettled(r, Outcomes(r))
        \/ ApiMetrics(r)
        \/ ApiMetricsSettled(r, Outcomes(r))
        \/ ApiChat(r)
        \/ ApiChatSettled(r, Outcomes(r))
        \/ Health(r)
        \/ Info(r)
        \/ Page(r)
        \/ NotFound(r)

Spec == Init /\ [][Next]_vars

\* the ways a call settles that take a continuation down each of its paths:
\* fulfilled, fulfilled with a body the log line cannot print, rejected with
\* an upstream response, refused, timed out
LiveOutcomes(r) ==
    IF r <= FullReq
    THEN {Ok(200, AnalysisBody), Ok(200, NoConfidenceBody),
          Fail(HttpError(422, DetailBody)), Fail(Refused), Fail(TimedOut)}
    ELSE CoreOutcomes

\* the outbound call of request r settles: the upstream answers, the
\* connection fails or the timeout passed to axios fires
Settled(r) ==
    \/ AnalyzeSettled(r, LiveOutcomes(r))
    \/ BatchSettled(r, LiveOutcomes(r))
    \/ ApiHealthSettled(r, LiveOutcomes(r))
    \/ ApiMetricsSettled(r, LiveOutcomes(r))
    \/ ApiChatSettled(r, LiveOutcomes(r))

NextLive ==
    \E r \in Req :
        \/ ParseFault(r) \/ Analyze(r) \/ BatchAnalyze(r) \/ ApiHealth(r)
        \/ ApiMetrics(r) \/ ApiChat(r) \/ Health(r) \/ Info(r) \/ Page(r)
        \/ NotFound(r)
        \/ Settled(r)

\* Every axios call carries a timeout, so no await stays pending for ever.
SpecLive == Init /\ [][NextLive]_vars /\ \A r \in Req : WF_vars(Settled(r))

(* ---------------- arbitrary error objects in the catch ----------------- *)
\* every combination of an error code (none, refused, unresolved, timeout,
\* other) with no response or an upstream response
AnyErrors ==
    {Err(c, "error", FALSE, 0, NoBody) :
        c \in {"", "ECONNREFUSED", "ENOTFOUND", "ECONNABORTED", "ERR_BAD_REQUEST"}}
    \cup {Err(c, "error", TRUE, 422, DetailBody) :
        c \in {"", "ECONNREFUSED", "ENOTFOUND", "ECONNABORTED", "ERR_BAD_REQUEST"}}

FaultOutcomes(r) ==
    IF r <= FullReq THEN Outcomes(r) \cup {Fail(e) : e \in AnyErrors} ELSE Outcomes(r)

\* the analyze and batch handlers alone, their calls settling as the axios
\* outcomes do or rejected with any error object
NextFault ==
    \E r \in Req :
        \/ Analyze(r)
        \/ AnalyzeSettled(r, FaultOutcomes(r))
        \/ BatchAnalyze(r)
        \/ BatchSettled(r, FaultOutcomes(r))

SpecFault == Init /\ [][NextFault]_vars

(* ---------------------- the legacy server running ---------------------- *)
LegacyAnalyze(r) ==
    /\ pc[r] = "idle"
    /\ \E rq \in Requests(r) :
        /\ Handler(rq) = "apiAnalyze"
        /\ LET step == LegacyAnalyzeTry(rq.body)
           IN Begin(r, rq, step, LegacyAnalyzeCatch(step.err))
LegacyAnalyzeSettled(r) ==
    /\ pc[r] = "awaiting"
    /\ Handler(req[r]) = "apiAnalyze"
    /\ \E o \in FaultOutcomes(r) :
        LET step == LegacyAnalyzeThen(o) IN Settle(r, o, step, LegacyAnalyzeCatch(step.err))
LegacyBatchAnalyze(r) ==
    /\ pc[r] = "idle"
    /\ \E rq \in Requests(r) :
        /\ Handler(rq) = "apiBatchAnalyze"
        /\ LET step == LegacyBatchTry(rq.body)
           IN Begin(r, rq, step, LegacyBatchCatch(step.err))
LegacyBatchSettled(r) ==
    /\ pc[r] = "awaiting"
    /\ Handler(req[r]) = "apiBatchAnalyze"
    /\ \E o \in FaultOutcomes(r) :
        LET step == LegacyBatchThen(o) IN Settle(r, o, step, LegacyBatchCatch(step.err))
LegacyApiHealth(r) ==
    /\ pc[r] = "idle"
    /\ \E rq \in Requests(r) :
        /\ Handler(rq) = "apiHealth"
        /\ LET step == LegacyHealthTry(rq.body)
           IN Begin(r, rq, step, LegacyHealthCatch(step.err))
LegacyApiHealthSettled(r) ==
    /\ pc[r] = "awaiting"
    /\ Handler(req[r]) = "apiHealth"
    /\ \E o \in FaultOutcomes(r) :
        LET step == LegacyHealthThen(o) IN Settle(r, o, step, LegacyHealthCatch(step.err))

NextLegacy ==
    \E r \in Req :
        \/ LegacyAnalyze(r)
        \/ LegacyAnalyzeSettled(r)
        \/ LegacyBatchAnalyze(r)
        \/ LegacyBatchSettled(r)
        \/ LegacyApiHealth(r)
        \/ LegacyApiHealthSettled(r)

SpecLegacy == Init /\ [][NextLegacy]_vars

(* ======================= claims about the gateway ===================== *)
Answered(r) == pc[r] = "done"
\* the route handler that r reached (a body that does not parse reaches none)
IsAnalyze(r) == Handler(req[r]) = "apiAnalyze"
IsBatch(r) == Handler(req[r]) = "apiBatchAnalyze"
IsHealth(r) == Handler(req[r]) = "apiHealth"
IsMetrics(r) == Handler(req[r]) = "apiMetrics"
IsChat(r) == Handler(req[r]) = "apiChat"
IsForwarding(r) == IsAnalyze(r) \/ IsBatch(r) \/ IsChat(r) \/ IsHealth(r) \/ IsMetrics(r)

\* text is missing, not a string, empty after trimming or longer than 5000
MalformedText(v) ==
    \/ v.t # "string"
    \/ StrLen(Trim(v.runs)) = 0
    \/ StrLen(v.runs) > 5000

\* texts is not a sequence, is empty, is longer than 100 or holds a
\* non-string or blank element (some run of equal elements is of such
\* elements)
MalformedTexts(v) ==
    \/ v.t # "array"
    \/ ArrLen(v.elems) = 0
    \/ ArrLen(v.elems) > 100
    \/ \E k \in 1..Len(v.elems) :
          v.elems[k].v.t # "string" \/ StrLen(Trim(v.elems[k].v.runs)) = 0

FailsValidation(r) ==
    \/ IsAnalyze(r) /\ MalformedText(req[r].body.text)
    \/ IsBatch(r) /\ MalformedTexts(req[r].body.texts)

EmptyTextError == ErrorResponse(400, "Text is required and cannot be empty", NoBody)
TooLongError ==
    ErrorResponse(400, "Text too long. Maximum 5000 characters allowed.", NoBody)
UnavailableError ==
    ErrorResponse(503, "AI service is currently unavailable. Please try again later.",
                  Lit("Unable to connect to sentiment analysis service"))
ConfigurationError ==
    ErrorResponse(503, "AI service configuration error",
                  Lit("Cannot resolve AI service hostname"))
GenericError(r) ==
    ErrorResponse(500, "Internal server error",
                  IF IsBatch(r)
                  THEN Lit("An unexpected error occurred while processing batch request")
                  ELSE Lit("An unexpected error occurred while processing your request"))

\* C1: a POST /api/analyze or POST /api/batch-analyze request that fails
\* validation has no outbound call made on its behalf, in any state.
C1_NoCallOnRejection ==
    \A r \in Req : FailsValidation(r) => calls[r] = <<>>

\* C1 witness: a text of more than 5000 characters has been rejected.
C1_Witness ==
    \E r \in Req :
        /\ Answered(r) /\ FailsValidation(r)
        /\ IsString(req[r].body.text) /\ StrLen(req[r].body.text.runs) > 5000
        /\ resps[r] = <<TooLongError>>

\* C2: a request to a forwarding route that passes validation has exactly
\* one outbound call from the moment its handler has run, whatever the call's
\* result, and no request ever has a second call.
C2_ExactlyOneCall ==
    \A r \in Req :
        /\ Len(calls[r]) <= 1
        /\ (pc[r] # "idle" /\ IsForwarding(r) /\ ~FailsValidation(r))
              => Len(calls[r]) = 1

\* C2 witness: a validated analyze request whose only call was refused has
\* been answered.
C2_Witness ==
    \E r \in Req :
        /\ Answered(r) /\ IsAnalyze(r) /\ ~FailsValidation(r)
        /\ outcome[r] = Fail(Refused)
        /\ Len(calls[r]) = 1

\* C3 as stated: every text longer than 5000 characters is answered 400
\* "Text too long", whatever its trimmed length.
C3_TooLongWhateverTrim ==
    \A r \in Req :
        (Answered(r) /\ IsAnalyze(r) /\ IsString(req[r].body.text)
            /\ StrLen(req[r].body.text.runs) > 5000)
        => resps[r] = <<TooLongError>>

\* C3 amended: every text longer than 5000 characters that is not blank is
\* answered 400 "Text too long"; a blank one is answered 400 "Text is
\* required and cannot be empty".
C3_TooLongUnlessBlank ==
    \A r \in Req :
        (Answered(r) /\ IsAnalyze(r) /\ IsString(req[r].body.text)
            /\ StrLen(req[r].body.text.runs) > 5000)
        => resps[r] = <<IF StrLen(Trim(req[r].body.text.runs)) > 0
                        THEN TooLongError ELSE EmptyTextError>>

\* C3 witness: a text longer than 5000 whose trimmed length is within the
\* limit has been rejected as too long.
C3_Witness ==
    \E r \in Req :
        /\ Answered(r) /\ IsAnalyze(r) /\ IsString(req[r].body.text)
        /\ StrLen(req[r].body.text.runs) > 5000
        /\ StrLen(Trim(req[r].body.text.runs)) \in 1..5000
        /\ resps[r] = <<TooLongError>>

\* C4: a text whose trimmed length is 0 is answered 400 with the body
\* {error: "Text is required and cannot be empty"} and no details.
C4_BlankTextRejected ==
    \A r \in Req :
        (Answered(r) /\ IsAnalyze(r) /\ IsString(req[r].body.text)
            /\ StrLen(Trim(req[r].body.text.runs)) = 0)
        => /\ resps[r] = <<EmptyTextError>>
           /\ resps[r][1].details.t = "absent"

\* C4 witness: a whitespace-only text of more than 5000 characters has been
\* answered.
C4_Witness ==
    \E r \in Req :
        /\ Answered(r) /\ IsAnalyze(r) /\ IsString(req[r].body.text)
        /\ StrLen(Trim(req[r].body.text.runs)) = 0
        /\ StrLen(req[r].body.text.runs) > 5000
        /\ resps[r] = <<EmptyTextError>>

\* C5 as stated: every malformed analyze or batch body is answered 400.
C5_MalformedIs400 ==
    \A r \in Req :
        (Answered(r) /\ FailsValidation(r))
        => Len(resps[r]) = 1 /\ resps[r][1].status = 400

\* C6 as stated: when the upstream answers 2xx with body B, an analyze or
\* batch request is answered 200 with a body identical to B.
C6_SuccessRelayed ==
    \A r \in Req :
        (Answered(r) /\ (IsAnalyze(r) \/ IsBatch(r)) /\ outcome[r].kind = "ok")
        => resps[r] = <<Passthrough(outcome[r].data)>>

\* C7 as stated: on analyze and batch, a name-resolution failure (code
\* ENOTFOUND, no response) is answered 503 "AI service configuration error".
C7_UnresolvedIs503 ==
    \A r \in Req :
        (Answered(r) /\ (IsAnalyze(r) \/ IsBatch(r)) /\ outcome[r].kind = "error"
            /\ outcome[r].err.code = "ENOTFOUND" /\ ~outcome[r].err.hasResp)
        => resps[r] = <<ConfigurationError>>

\* C8: on analyze and batch, a refused connection is answered 503 with the
\* fixed unavailable message and details.
C8_RefusedIs503 ==
    \A r \in Req :
        (Answered(r) /\ (IsAnalyze(r) \/ IsBatch(r)) /\ outcome[r] = Fail(Refused))
        => resps[r] = <<UnavailableError>>

\* C8 witness: an analyze and a batch request have both been refused.
C8_Witness ==
    \E r1, r2 \in Req :
        /\ Answered(r1) /\ IsAnalyze(r1) /\ outcome[r1] = Fail(Refused)
        /\ Answered(r2) /\ IsBatch(r2) /\ outcome[r2] = Fail(Refused)

\* C9: on analyze and batch, an upstream answer with a non-2xx status S and
\* body B is answered with status S, error "AI service error", details B.
C9_UpstreamErrorRelayed ==
    \A r \in Req :
        (Answered(r) /\ (IsAnalyze(r) \/ IsBatch(r)) /\ outcome[r].kind = "error"
            /\ outcome[r].err.hasResp)
        => resps[r] = <<ErrorResponse(outcome[r].err.status, "AI service error",
                                      outcome[r].err.data)>>

\* C9 witness: an upstream 422 has been relayed on both routes.
C9_Witness ==
    \E r1, r2 \in Req :
        /\ Answered(r1) /\ IsAnalyze(r1) /\ Answered(r2) /\ IsBatch(r2)
        /\ outcome[r1] = Fail(HttpError(422, DetailBody))
        /\ outcome[r2] = Fail(HttpError(422, DetailBody))
        /\ resps[r1][1].status = 422 /\ resps[r2][1].status = 422

\* the failure rows of the error-mapping table for request r
FailureRows(r) ==
    {UnavailableError, ConfigurationError, GenericError(r)}
    \cup (IF caught[r].hasResp
          THEN {ErrorResponse(caught[r].status, "AI service error", caught[r].data)}
          ELSE {})

\* C10: every failure of an analyze or batch request (a rejected call with
\* any error code, with or without an upstream response, or an exception of
\* the handler's own code) is answered with exactly one response, which is a
\* row of the error-mapping table and is the same for two requests with the
\* same route and the same failure.
C10_FailureMappingTotal ==
    \A r \in Req :
        (Answered(r) /\ (IsAnalyze(r) \/ IsBatch(r)))
        => /\ outcome[r].kind = "error" => caught[r] = outcome[r].err
           /\ caught[r] # NoErr =>
                /\ Len(resps[r]) = 1
                /\ resps[r][1] \in FailureRows(r)
                /\ \A q \in Req :
                     (Answered(q) /\ req[q].path = req[r].path
                        /\ req[q].method = req[r].method /\ caught[q] = caught[r])
                     => resps[q] = resps[r]

\* C10 witness: an error carrying both the code ENOTFOUND and a response
\* has been mapped on one request and a TypeError of the handler's own code
\* on another.
C10_Witness ==
    \E r, q \in Req :
        /\ Answered(r) /\ IsAnalyze(r)
        /\ caught[r].code = "ENOTFOUND" /\ caught[r].hasResp
        /\ Answered(q) /\ IsAnalyze(q) /\ caught[q] = TypeError

\* an element the batch validation must reject: not a string, or blank
InvalidElement(v) == v.t # "string" \/ StrLen(Trim(v.runs)) = 0

\* the indexes of the invalid elements of the array value v
InvalidIndexes(v) ==
    {i \in 0..(ArrLen(v.elems) - 1) : InvalidElement(ElemAt(v.elems, i))}

\* the smallest member of a non-empty set of numbers
Smallest(S) == CHOOSE i \in S : \A j \in S : i <= j

BatchRequiredError ==
    ErrorResponse(400, "Texts array is required and cannot be empty", NoBody)
TooManyError ==
    ErrorResponse(400, "Too many texts. Maximum 100 texts allowed per batch.", NoBody)

\* C11: when a batch of 1 to 100 texts holds invalid elements, the answer is
\* 400 "Text at index i is invalid or empty" with i the smallest invalid index.
C11_FirstInvalidIndex ==
    \A r \in Req :
        LET texts == req[r].body.texts IN
        (Answered(r) /\ IsBatch(r) /\ texts.t = "array"
            /\ ArrLen(texts.elems) \in 1..100 /\ InvalidIndexes(texts) # {})
        => resps[r] = <<ErrorResponse(400,
                          "Text at index " \o ToString(Smallest(InvalidIndexes(texts)))
                              \o " is invalid or empty", NoBody)>>

\* C11 witness: a batch with two invalid elements, the first at index 1, has
\* been answered.
C11_Witness ==
    \E r \in Req :
        /\ Answered(r) /\ IsBatch(r) /\ req[r].body.texts.t = "array"
        /\ ArrLen(req[r].body.texts.elems) \in 1..100
        /\ Cardinality(InvalidIndexes(req[r].body.texts)) >= 2
        /\ Smallest(InvalidIndexes(req[r].body.texts)) = 1
        /\ Len(resps[r]) = 1 /\ resps[r][1].status = 400

\* C12: a texts value that is no array or is empty is answered 400 "Texts
\* array is required and cannot be empty", and an array of more than 100
\* elements 400 "Too many texts...", whatever its elements are.
C12_BatchSizeRejected ==
    \A r \in Req :
        LET texts == req[r].body.texts IN
        (Answered(r) /\ IsBatch(r))
        => /\ (texts.t # "array" \/ ArrLen(texts.elems) = 0)
                => resps[r] = <<BatchRequiredError>>
           /\ (texts.t = "array" /\ ArrLen(texts.elems) > 100)
                => resps[r] = <<TooManyError>>

\* C12 witness: a batch of more than 100 texts, all invalid, has been
\* answered.
C12_Witness ==
    \E r \in Req :
        /\ Answered(r) /\ IsBatch(r) /\ req[r].body.texts.t = "array"
        /\ ArrLen(req[r].body.texts.elems) > 100
        /\ 0 \in InvalidIndexes(req[r].body.texts)
        /\ resps[r] = <<TooManyError>>

\* C13: a batch of 1 to 100 strings, none blank, is forwarded to
\* /batch-analyze with a payload of the same length whose i-th element is the
\* trimmed i-th text.
C13_BatchPayloadTrimmed ==
    \A r \in Req :
        LET texts == req[r].body.texts IN
        (pc[r] # "idle" /\ IsBatch(r) /\ ~MalformedTexts(texts))
        => /\ Len(calls[r]) = 1
           /\ calls[r][1].path = "/batch-analyze"
           /\ LET sent == calls[r][1].payload.texts IN
              /\ sent.t = "array"
              /\ ArrLen(sent.elems) = ArrLen(texts.elems)
              /\ \A i \in 0..(ArrLen(texts.elems) - 1) :
                    ElemAt(sent.elems, i) = Str(Trim(ElemAt(texts.elems, i).runs))

\* C13 witness: a batch whose first text carries surrounding whitespace has
\* been forwarded.
C13_Witness ==
    \E r \in Req :
        /\ pc[r] # "idle" /\ IsBatch(r) /\ ~MalformedTexts(req[r].body.texts)
        /\ ArrLen(req[r].body.texts.elems) >= 2
        /\ Len(calls[r]) = 1
        /\ ElemAt(calls[r][1].payload.texts.elems, 0)
              # ElemAt(req[r].body.texts.elems, 0)

\* C14: every answer of GET /api/health is a single health body whose
\* web_service is "healthy"; after a 2xx upstream answer it is 200 with
\* ai_service the upstream body, after any failed call it is 503 with
\* ai_service "unavailable".
C14_HealthAlwaysHealthy ==
    \A r \in Req :
        (Answered(r) /\ IsHealth(r)) =>
            /\ Len(resps[r]) = 1
            /\ resps[r][1].shape = "health"
            /\ resps[r][1].web = "healthy"
            /\ outcome[r].kind \in {"ok", "error"}
            /\ outcome[r].kind = "ok" =>
                  /\ resps[r][1].status = 200
                  /\ resps[r][1].data = outcome[r].data
            /\ outcome[r].kind = "error" =>
                  /\ resps[r][1].status = 503
                  /\ resps[r][1].data = Lit("unavailable")

\* C14 witness: one health request was answered after a 2xx upstream answer
\* and another after the upstream timed out.
C14_Witness ==
    \E r, q \in Req :
        /\ Answered(r) /\ IsHealth(r) /\ outcome[r].kind = "ok"
        /\ resps[r][1].status = 200
        /\ Answered(q) /\ IsHealth(q) /\ outcome[q] = Fail(TimedOut)
        /\ resps[q][1].status = 503 /\ resps[q][1].web = "healthy"

\* a JSON body, as res.json sends it
IsJson(resp) ==
    resp.shape \in {"error", "passthrough", "health", "nodeHealth", "apiInfo", "notFound"}
\* the body of the error-handling middleware
InternalServerError ==
    [status |-> 500, shape |-> "error", web |-> "", error |-> "Internal Server Error",
     details |-> NoBody, data |-> NoBody, message |-> "An unexpected error occurred",
     endpoints |-> <<>>]
\* a fault was handed to Express for r rather than caught by r's route handler
FaultRaised(r) == ~req[r].parsed \/ caught[r] \in {ParseError, FileError}

\* C15: every answered request has exactly one response; when anything was
\* caught for it the response is JSON; and a request whose fault was handed
\* to Express (a body that does not parse, a page file that cannot be read)
\* is answered 500 with the generic JSON error body and nothing else.
C15_FaultsAnswered500Json ==
    \A r \in Req :
        Answered(r) =>
            /\ Len(resps[r]) = 1
            /\ resps[r][1] # NoResponse
            /\ caught[r] # NoErr => IsJson(resps[r][1])
            /\ FaultRaised(r) => resps[r] = <<InternalServerError>>

\* C15 witness: a request whose body did not parse and a page request whose
\* file could not be read have both been answered.
C15_Witness ==
    \E r, q \in Req :
        /\ Answered(r) /\ ~req[r].parsed /\ caught[r] = ParseError
        /\ Answered(q) /\ Handler(req[q]) = "page" /\ caught[q] = FileError
        /\ resps[r] = <<InternalServerError>> /\ resps[q] = <<InternalServerError>>

\* the timeout each forwarding route passes to axios
RouteTimeout(r) ==
    IF IsAnalyze(r) THEN 30000
    ELSE IF IsBatch(r) THEN 60000
    ELSE IF IsChat(r) THEN 30000
    ELSE 5000

\* C16: a request whose outbound call ran into the route's timeout carried
\* that timeout on its one call and is answered once, without further
\* waiting: 500 "Internal server error" with the route's generic details on
\* /api/analyze and /api/batch-analyze, 503 on /api/health, /api/metrics
\* and /api/chat.
C16_TimeoutMapped ==
    \A r \in Req :
        (pc[r] # "idle" /\ IsForwarding(r) /\ outcome[r] = Fail(TimedOut)) =>
            /\ Answered(r)
            /\ Len(calls[r]) = 1
            /\ calls[r][1].timeout = RouteTimeout(r)
            /\ Len(resps[r]) = 1
            /\ (IsAnalyze(r) \/ IsBatch(r)) => resps[r] = <<GenericError(r)>>
            /\ (IsHealth(r) \/ IsMetrics(r) \/ IsChat(r)) => resps[r][1].status = 503

\* C16 witness: an analyze request whose call timed out has been answered
\* with the generic 500.
C16_Witness ==
    \E r \in Req :
        /\ Answered(r) /\ IsAnalyze(r) /\ outcome[r] = Fail(TimedOut)
        /\ calls[r][1].timeout = 30000
        /\ resps[r][1].status = 500

\* C17: when every outbound call settles (an upstream answer, a failed
\* connection or the timeout), every request that has arrived eventually has
\* its one response sent.
C17_EventuallyAnswered ==
    \A r \in Req : (pc[r] # "idle") ~> (Answered(r) /\ Len(resps[r]) = 1)

\* C17 witness: a request that was suspended at its call has been answered
\* after the call timed out.
C17_Witness ==
    \E r \in Req :
        /\ Answered(r) /\ Len(calls[r]) = 1 /\ outcome[r] = Fail(TimedOut)
        /\ Len(resps[r]) = 1

\* a request arrives in slot r and its handler runs to its response or to its
\* call
Arrives(r) ==
    \/ ParseFault(r) \/ Analyze(r) \/ BatchAnalyze(r) \/ ApiHealth(r) \/ ApiMetrics(r)
    \/ ApiChat(r) \/ Health(r) \/ Info(r) \/ Page(r) \/ NotFound(r)

\* C18: while a request q is suspended at its upstream call, every other
\* request can take its next step: one that has not run yet can be validated
\* and forwarded or answered, and one suspended at its own call is answered
\* as soon as that call settles.
C18_NoBlocking ==
    \A q, r \in Req :
        (q # r /\ pc[q] = "awaiting") =>
            /\ pc[r] = "idle" => ENABLED Arrives(r)
            /\ pc[r] = "idle" => ENABLED Analyze(r)
            /\ pc[r] = "awaiting" => ENABLED Settled(r)

\* C18 witness: a request was forwarded and answered after its upstream
\* answered while another request is still suspended at its call.
C18_Witness ==
    \E q, r \in Req :
        /\ q # r /\ pc[q] = "awaiting"
        /\ Answered(r) /\ Len(calls[r]) = 1 /\ outcome[r].kind = "ok"
        /\ Len(resps[r]) = 1

\* what request r itself brought: its route and body, how its upstream call
\* settled and, for a page, whether its file could be read
OwnInputs(r) == <<req[r], outcome[r], caught[r] = FileError>>
\* two answered requests with the same own inputs have the same calls, caught
\* error and responses
SameInSameOut ==
    \A r, q \in Req :
        (Answered(r) /\ Answered(q) /\ OwnInputs(r) = OwnInputs(q))
        => /\ resps[r] = resps[q]
           /\ calls[r] = calls[q]
           /\ caught[r] = caught[q]
\* a step touches the state of one request only
OneRequestPerStep ==
    \E r \in Req :
        \A q \in Req \ {r} :
            /\ pc'[q] = pc[q] /\ req'[q] = req[q] /\ calls'[q] = calls[q]
            /\ outcome'[q] = outcome[q] /\ caught'[q] = caught[q]
            /\ resps'[q] = resps[q] /\ late'[q] = late[q]

C20_ErrorShape ==
    \A r \in Req :
        (Answered(r) /\ (IsAnalyze(r) \/ IsBatch(r)) /\ resps[r][1].shape = "error")
        => /\ resps[r][1].error # ""
           /\ resps[r][1].details.t \in {"absent", "string"}

\* the fixed error message of the chat and metrics routes
ProxyErrorMessage(r) ==
    IF IsChat(r) THEN "Failed to communicate with conversational AI service"
    ELSE "Failed to fetch metrics from AI service"

\* C21: every chat or metrics request is forwarded as it came (one call, the
\* chat payload being the request body); after a 2xx upstream answer the
\* response is 200 with the upstream body, after any failed call it is 503
\* with the route's fixed error message and the error's message as details.
C21_ProxyPassthroughOr503 ==
    \A r \in Req :
        ((IsChat(r) \/ IsMetrics(r)) /\ pc[r] # "idle") =>
            /\ Len(calls[r]) = 1
            /\ IsChat(r) => calls[r][1].payload = req[r].body
            /\ Answered(r) =>
                /\ outcome[r].kind \in {"ok", "error"}
                /\ outcome[r].kind = "ok" => resps[r] = <<Passthrough(outcome[r].data)>>
                /\ outcome[r].kind = "ok" => resps[r][1].status = 200
                /\ outcome[r].kind = "error" =>
                      resps[r] = <<ErrorResponse(503, ProxyErrorMessage(r),
                                                 Lit(outcome[r].err.message))>>

\* C21 witness: a chat request without a text member was forwarded and,
\* after the upstream answered 422, answered 503.
C21_Witness ==
    \E r \in Req :
        /\ Answered(r) /\ IsChat(r) /\ req[r].body.text = Undef
        /\ outcome[r] = Fail(HttpError(422, DetailBody))
        /\ resps[r][1].status = 503

\* method and path match one of the app.get / app.post registrations
MatchesRoute(r) == Route(req[r].method, req[r].path) # "notFound"
\* the body of the 404 handler, whatever its message
IsNotFoundAnswer(resp) ==
    /\ resp.status = 404 /\ resp.shape = "notFound" /\ resp.error = "Not Found"
    /\ resp.endpoints = <<"GET /", "GET /health", "GET /api", "GET /api/health",
                          "POST /api/analyze", "POST /api/batch-analyze">>

C23_ApiBatchProxied ==
    \A r \in Req :
        (Answered(r) /\ req[r].method = "POST" /\ req[r].path = "/api/batch"
            /\ req[r].parsed /\ ~MalformedTexts(req[r].body.texts))
        => /\ Len(calls[r]) = 1
           /\ resps[r][1].status # 404

\* C24 as stated: every call the gateway makes on the sentiment service goes
\* to an endpoint of the service's documented endpoint table.
C24_CallsDocumentedEndpoints ==
    \A r \in Req :
        \A i \in 1..Len(calls[r]) :
            calls[r][i].base = SENTIMENT_ANALYSIS_URL
            => <<calls[r][i].method, calls[r][i].path>> \in SentimentEndpoints

\* a string value of at least one character that neither starts nor ends
\* with whitespace
CleanText(v) ==
    /\ v.t = "string"
    /\ StrLen(v.runs) >= 1
    /\ v.runs[1].c \notin {" ", "\t"}
    /\ v.runs[Len(v.runs)].c \notin {" ", "\t"}

\* C25: every payload sent to /analyze carries a text of 1 to 5000
\* characters without leading or trailing whitespace, and every payload sent
\* to /batch-analyze carries an array of 1 to 100 texts, each a string of at
\* least one character without leading or trailing whitespace.
C25_PayloadInvariants ==
    \A r \in Req :
        \A i \in 1..Len(calls[r]) :
            LET call == calls[r][i] IN
            /\ call.path = "/analyze" =>
                  /\ CleanText(call.payload.text)
                  /\ StrLen(call.payload.text.runs) <= 5000
            /\ call.path = "/batch-analyze" =>
                  LET sent == call.payload.texts IN
                  /\ sent.t = "array"
                  /\ ArrLen(sent.elems) \in 1..100
                  /\ \A k \in 1..Len(sent.elems) : CleanText(sent.elems[k].v)

\* C25 witness: a text with surrounding whitespace and a batch have both
\* been forwarded.
C25_Witness ==
    \E r, q \in Req :
        /\ IsAnalyze(r) /\ req[r].body.text = Str(Padded) /\ Len(calls[r]) = 1
        /\ calls[r][1].payload.text = Str(TextA)
        /\ IsBatch(q) /\ Len(calls[q]) = 1
        /\ ArrLen(calls[q][1].payload.texts.elems) >= 1

\* C26: in every state at most one response has been sent for each request,
\* an answered request has exactly one, and an upstream answer that comes in
\* after the timeout was answered adds none.
C26_AnsweredAtMostOnce ==
    \A r \in Req :
        /\ Len(resps[r]) <= 1
        /\ Answered(r) => Len(resps[r]) = 1
        /\ pc[r] # "done" => Len(resps[r]) = 0

\* C26 witness: the upstream answered after the timeout of a request that
\* had been answered with the timeout's error, and the request still has one
\* response.
C26_Witness ==
    \E r \in Req :
        /\ Answered(r) /\ outcome[r] = Fail(TimedOut) /\ late[r]
        /\ Len(resps[r]) = 1

\* what the TypeScript server does with a request whose call, if it makes
\* one, settles as o: the code down to the await, the code after it, the
\* catch block, the call and the response
TsTry(rq) ==
    CASE Handler(rq) = "apiAnalyze" -> AnalyzeTry(rq.body)
      [] Handler(rq) = "apiBatchAnalyze" -> BatchTry(rq.body)
      [] OTHER -> HealthTry(rq.body)
TsThen(rq, o) ==
    CASE Handler(rq) = "apiAnalyze" -> AnalyzeThen(o)
      [] Handler(rq) = "apiBatchAnalyze" -> BatchThen(o)
      [] OTHER -> HealthThen(o)
TsCatch(rq, err) ==
    CASE Handler(rq) = "apiAnalyze" -> AnalyzeCatch(err)
      [] Handler(rq) = "apiBatchAnalyze" -> BatchCatch(err)
      [] OTHER -> HealthCatch(err)
TsCalls(rq) == IF TsTry(rq).tag = "await" THEN <<TsTry(rq).call>> ELSE <<>>
TsResponse(rq, o) ==
    LET first == TsTry(rq) IN
    CASE first.tag = "respond" -> first.resp
      [] first.tag = "throw" -> TsCatch(rq, first.err)
      [] OTHER -> LET second == TsThen(rq, o) IN
                  IF second.tag = "respond" THEN second.resp
                  ELSE TsCatch(rq, second.err)

\* C27: whatever the legacy server did with a request on /api/analyze,
\* /api/batch-analyze or /api/health is what the TypeScript server does with
\* the same request and the same upstream outcome: the same call (base,
\* path, payload, timeout) and the same single response.
C27_LegacyEquivalent ==
    \A r \in Req :
        /\ pc[r] # "idle" => calls[r] = TsCalls(req[r])
        /\ Answered(r) => resps[r] = <<TsResponse(req[r], outcome[r])>>

\* C27 witness: the legacy server has answered a batch request whose call
\* found the upstream host unresolvable, and an analyze request.
C27_Witness ==
    \E r, q \in Req :
        /\ Answered(r) /\ IsBatch(r) /\ outcome[r] = Fail(Unresolved)
        /\ resps[r][1].status = 500
        /\ Answered(q) /\ IsAnalyze(q) /\ Len(resps[q]) = 1

\* C28: on /api/analyze a caught failure with code ECONNREFUSED is answered
\* 503 "unavailable" whether or not it carries an upstream response; any
\* other failure that carries an upstream response is answered with the
\* relayed upstream status and body, code ENOTFOUND included; and ENOTFOUND
\* without a response is answered 503 "configuration error".
C28_AnalyzeCatchOrder ==
    \A r \in Req :
        (Answered(r) /\ IsAnalyze(r) /\ caught[r] # NoErr) =>
            /\ caught[r].code = "ECONNREFUSED" => resps[r] = <<UnavailableError>>
            /\ (caught[r].code # "ECONNREFUSED" /\ caught[r].hasResp)
                  => resps[r] = <<ErrorResponse(caught[r].status, "AI service error",
                                                caught[r].data)>>
            /\ (caught[r].code = "ENOTFOUND" /\ ~caught[r].hasResp)
                  => resps[r] = <<ConfigurationError>>

\* C28 witness: an analyze failure carrying both the code ECONNREFUSED and an
\* upstream response has been answered 503.
C28_Witness ==
    \E r \in Req :
        /\ Answered(r) /\ IsAnalyze(r)
        /\ caught[r].code = "ECONNREFUSED" /\ caught[r].hasResp
        /\ resps[r][1].status = 503
====
